---- MODULE Spec2Model ----
(***************************************************************************)
(* A model of AnniesLasso/cannon.py: the per-spectrum fitter               *)
(* (_fit_spectrum) and CannonModel.fit over a batch of spectra, the        *)
(* per-pixel trainer (_fit_pixel, _fit_theta,                              *)
(* _fit_pixel_with_fixed_scatter, _model_pixel) and CannonModel.train.     *)
(*                                                                         *)
(* Numbers.  A float is a record [k, v]: k = "num" with the integer value  *)
(* v, k = "nan", or k = "inf".  Quantities the code divides (adjusted      *)
(* inverse variance, chi-square, theta of the closed-form solver) are      *)
(* exact fractions [num, den].  Label values and nuisance parameters are   *)
(* integers.                                                               *)
(***************************************************************************)
EXTENDS Integers, Sequences, FiniteSets, TLC

VARIABLES
    \* ---- _fit_spectrum: arguments
    normalized_flux,      \* sequence of floats, one per pixel
    normalized_ivar,      \* sequence of integers >= 0, one per pixel
    s2_arg,               \* the s2 argument: sequence of integers >= 0
    initial_labels,       \* sequence of initial label vectors
    model_lsf,
    model_redshift,
    kw_max_abs_velocity,  \* kwargs.get("max_abs_velocity", 10)
    kw_Dfun,              \* kwargs.get("Dfun", False)
    derivative,           \* what vectorizer.get_label_vector_derivative does
    \* ---- _fit_spectrum: locals and outcome
    fs_pc,                \* "entry", "loop", "done", "raised"
    fs_k,                 \* number of initial guesses the loop has consumed
    results,              \* the list `results`
    fs_ret,               \* the returned (labels, cov, meta), or None
    fs_exc,               \* the exception that left _fit_spectrum, or "none"
    fs_Dfun,              \* the local Dfun: None or a function
    n_curve_fit,          \* number of op.curve_fit invocations
    \* ---- CannonModel.fit: the batch and its dispatch
    fit_args,             \* zip(*args): one [flux, ivar] per spectrum
    fit_pc,               \* "map", "done", "raised"
    fit_cur,              \* the spectrum _fit_spectrum is working on, or 0
    fit_out,              \* what the mapper has collected, by spectrum
    fit_ret,              \* the returned (labels, cov, metadata), or None
    fit_exc,              \* the exception that left fit, or "none"
    \* ---- per-pixel functions: arguments and outcome
    px_flux,              \* normalized_flux of one pixel, one integer per star
    px_ivar,              \* normalized_ivar of one pixel, one integer per star
    px_scatter,           \* the scatter / initial_s2 argument
    px_design,            \* the design matrix, NStars rows of NTerms integers
    px_fixed_scatter,
    px_pc,                \* "args", "returned", "raised"
    px_call,              \* which function was applied
    px_out,               \* what it returned, or the exception it raised
    n_fmin_powell,        \* number of op.fmin_powell invocations
    \* ---- CannonModel (Model State) and train
    theta,                \* self.theta: None or a sequence of rows
    s2,                   \* self.s2: None, a scalar or a sequence
    pool,                 \* self.pool: None or "pool"
    tr_pc,                \* "idle", "dispatch", "collect", "raised"
    tr_fixed_scatter,     \* the fixed_scatter argument of the running call
    tr_function,          \* kwargs.pop("function", _fit_pixel)
    tr_use_neighbouring,  \* use_neighbouring_pixels after lines 100-112
    tr_initial_theta,     \* initial_theta after lines 101-112
    tr_initial_s2,        \* initial_s2 (line 115)
    tr_output,            \* `output`: pixel index -> result, for the pixels done
    tr_last_theta,        \* last_theta of the neighbouring-pixel loop
    tr_exc,               \* the exception that left train, or "none"
    tr_calls              \* number of train calls started

fsVars == <<normalized_flux, normalized_ivar, s2_arg, initial_labels, model_lsf,
            model_redshift, kw_max_abs_velocity, kw_Dfun, derivative, fs_pc, fs_k,
            results, fs_ret, fs_exc, fs_Dfun, n_curve_fit>>
pxVars == <<px_flux, px_ivar, px_scatter, px_design, px_fixed_scatter, px_pc,
            px_call, px_out, n_fmin_powell>>
trVars == <<theta, s2, pool, tr_pc, tr_fixed_scatter, tr_function,
            tr_use_neighbouring, tr_initial_theta, tr_initial_s2, tr_output,
            tr_last_theta, tr_exc, tr_calls>>
ftVars == <<fit_args, fit_pc, fit_cur, fit_out, fit_ret, fit_exc>>
vars == <<fsVars, pxVars, trVars, ftVars>>

\* Python's None, and a value that is not None
None == [k |-> "none", v |-> 0]
Some(x) == [k |-> "some", v |-> x]

(***************************************************************************)
(* Bounds of the model.                                                    *)
(***************************************************************************)
NPixels == 3      \* pixels of the dispersion grid
MaxStarts == 2    \* initial label vectors of a multi-start fit
NStars == 2       \* stars of the labelled set
MaxCalls == 2     \* train calls in one behaviour

(***************************************************************************)
(* Floats.                                                                 *)
(***************************************************************************)
Num(x) == [k |-> "num", v |-> x]
NaN == [k |-> "nan", v |-> 0]
Inf == [k |-> "inf", v |-> 0]

IsFinite(x) == x.k = "num"

Abs(x) == IF x < 0 THEN -x ELSE x

\* abs() of a float
FAbs(x) == IF x.k = "num" THEN Num(Abs(x.v)) ELSE x

\* x * nan
TimesNaN(x) == NaN

RECURSIVE SumSeq(_)
SumSeq(s) == IF s = <<>> THEN 0 ELSE Head(s) + SumSeq(Tail(s))

RECURSIVE ProdSeq(_)
ProdSeq(s) == IF s = <<>> THEN 1 ELSE Head(s) * ProdSeq(Tail(s))

\* np.dot of two integer vectors
Dot(a, b) == SumSeq([i \in 1..Len(a) |-> a[i] * b[i]])

\* an array with its entries computed (once)
Array(s) == SubSeq(s, 1, Len(s))

\* s[use]: the entries of s at the indices of the increasing sequence idx
Take(s, idx) == Array([i \in 1..Len(idx) |-> s[idx[i]]])

RECURSIVE Where(_, _)
\* the indices j in 1..n with mask[j], increasing
Where(mask, n) ==
    IF n = 0 THEN <<>>
    ELSE IF mask[n] THEN Append(Where(mask, n - 1), n) ELSE Where(mask, n - 1)


(***************************************************************************)
(* Exact fractions num/den, den > 0, and the NaN that np.sum propagates.   *)
(***************************************************************************)
Frac(n, d) == [k |-> "frac", num |-> n, den |-> d]
FracNaN == [k |-> "nan", num |-> 0, den |-> 1]

FracLess(a, b) == a.num * b.den < b.num * a.den

(***************************************************************************)
(* The collaborators of _fit_spectrum: the vectorizer, the trained theta,  *)
(* the dispersion grid.  The vectorizer is the linear one: the constant    *)
(* term followed by each label's offset from its fiducial value.           *)
(***************************************************************************)
NLabels == 1

Fiducial == 200000

Fiducials == [i \in 1..NLabels |-> Fiducial]

NTerms == NLabels + 1

Vectorizer(labels) == <<1>> \o [i \in 1..NLabels |-> labels[i] - Fiducials[i]]

\* self.dispersion
Dispersion == [j \in 1..NPixels |-> j]

\* the theta argument of _fit_spectrum: one row of NTerms coefficients per pixel
theta_arg == [j \in 1..NPixels |-> <<1>> \o [i \in 1..NLabels |-> j]]

\* the speed of light of line 829, 299792.458 km/s, in whole km/s
SpeedOfLight == 299792

DefaultMaxAbsVelocity == 10

RedshiftP0 == 0

KernelP0 == 5

(***************************************************************************)
(* _fit_spectrum, lines 760-774: the mask of usable pixels.                *)
(***************************************************************************)
\* ivar / (1 + ivar * s2)
AdjustedIvar(ivar, s2v) == Frac(ivar, 1 + ivar * s2v)

\* the square of adjusted_sigma = sqrt(1/adjusted_ivar): 1/0 is inf
AdjustedSigmaSq(ivar, s2v) ==
    LET a == AdjustedIvar(ivar, s2v)
    IN  IF a.num = 0 THEN Inf ELSE Frac(a.den, a.num)

\* a mask that tests the flux alone
UseFiniteFluxOnly(flux, ivar, s2v) == [j \in 1..Len(flux) |-> IsFinite(flux[j])]

\* np.isfinite(adjusted_sigma * normalized_flux): inf * x is inf or nan
Use(flux, ivar, s2v) ==
    [j \in 1..Len(flux) |->
        AdjustedSigmaSq(ivar[j], s2v[j]).k = "frac" /\ IsFinite(flux[j])]

UseIndex(flux, ivar, s2v) == Where(Array(Use(flux, ivar, s2v)), Len(flux))

NoInformationReturn ==
    [labels |-> [i \in 1..NLabels |-> NaN], cov |-> None,
     meta |-> [fail_message |-> "Pixels contained no information"]]

NoResultsReturn ==
    [labels |-> [i \in 1..NLabels |-> NaN], cov |-> None,
     meta |-> [fail_message |-> "No results found"]]

(***************************************************************************)
(* The forward model f of lines 810-832.                                   *)
(***************************************************************************)
\* mean_pixel_scale = 1.0/np.diff(dispersion).mean()
MeanPixelScale == (NPixels - 1) \div (Dispersion[NPixels] - Dispersion[1])

\* the index scipy's "reflect" boundary reads for position k of n samples
Reflect(k, n) ==
    LET m == (k - 1) % (2 * n)
    IN  IF m < n THEN m + 1 ELSE 2 * n - m

\* scipy.ndimage.gaussian_filter(y, sigma): a smoothing of width sigma with
\* reflected boundaries (a window mean here); sigma = 0 leaves y as it is
GaussianFilter(y, sigma) ==
    [j \in 1..Len(y) |->
        SumSeq([d \in 1..(2 * sigma + 1) |-> y[Reflect(j + d - sigma - 1, Len(y))]])
            \div (2 * sigma + 1)]

\* np.interp(dispersion, dispersion * (1 + v/c), y, left=nan, right=nan);
\* both grids are multiplied by c to stay in integers
Interp(y, v) ==
    LET n == Len(y)
        xp(j) == Dispersion[j] * (SpeedOfLight + v)
    IN  [i \in 1..n |->
            LET x == Dispersion[i] * SpeedOfLight
            IN  IF x < xp(1) \/ x > xp(n) THEN NaN
                ELSE LET j == CHOOSE c \in 1..n :
                                /\ xp(c) <= x
                                /\ \A e \in 1..n : xp(e) <= x => e <= c
                     IN  IF j = n THEN Num(y[n])
                         ELSE Num(y[j] + ((x - xp(j)) * (y[j + 1] - y[j]))
                                            \div (xp(j + 1) - xp(j)))]

\* the velocity read from the last parameter whatever model_lsf is
VelocityIndexLast(parameters, lsf) == Len(parameters)

\* index = -2 if model_lsf else -1 (line 821), as a position from the front
VelocityIndex(parameters, lsf) ==
    IF lsf THEN Len(parameters) - 1 ELSE Len(parameters)

\* |v| >= max_abs_velocity (line 824)
OutsideMaxVelocity(v, max_abs_velocity) == Abs(v) >= max_abs_velocity

\* f(xdata, *parameters); use is the sequence of used pixel indices
ForwardModel(parameters, lsf, redshift, max_abs_velocity, use) ==
    LET labels == SubSeq(parameters, 1, NLabels)
        y0 == Array([j \in 1..NPixels |-> Dot(theta_arg[j], Vectorizer(labels))])
        y1 == IF lsf
              THEN Array(GaussianFilter(y0, Abs(parameters[Len(parameters)])
                                                * MeanPixelScale))
              ELSE y0
    IN  IF redshift
        THEN LET v == parameters[VelocityIndex(parameters, lsf)]
             IN  IF OutsideMaxVelocity(v, max_abs_velocity)
                 THEN [i \in 1..Len(use) |-> NaN]
                 ELSE Take(Array(Interp(y1, v)), use)
        ELSE Take([j \in 1..NPixels |-> Num(y1[j])], use)

\* np.sum((fvec - normalized_flux)**2 / adjusted_sigma**2) over the used pixels
ChiSq(fvec, flux, ivar, s2v, use) ==
    IF \E i \in 1..Len(use) : ~IsFinite(fvec[i]) THEN FracNaN
    ELSE LET q == [i \in 1..Len(use) |-> 1 + ivar[use[i]] * s2v[use[i]]]
             L == ProdSeq(q)
         IN  Frac(SumSeq([i \in 1..Len(use) |->
                      (fvec[i].v - flux[use[i]].v) * (fvec[i].v - flux[use[i]].v)
                          * ivar[use[i]] * (L \div q[i])]), L)


(***************************************************************************)
(* op.curve_fit (line 871), an external optimizer: what a call can do.     *)
(* leastsq refuses more parameters than data points with a TypeError; it   *)
(* raises RuntimeError when no optimum is found; otherwise it returns some *)
(* parameter vector: each label at its initial value, next to it, or far   *)
(* from it, a velocity and a kernel width.                                 *)
(***************************************************************************)
LabelSteps == {0, 1, 5}

VelocityValues == {RedshiftP0, 8}

KernelValues == {KernelP0, -3}

\* kwds["p0"] of lines 862-868
P0(labels, lsf, redshift) ==
    labels \o (IF redshift THEN <<RedshiftP0>> ELSE <<>>)
           \o (IF lsf THEN <<KernelP0>> ELSE <<>>)

CurveFitReturns(p0, lsf, redshift) ==
    {lab \o vel \o ker :
        lab \in {[i \in 1..NLabels |-> p0[i] + d[i]] : d \in [1..NLabels -> LabelSteps]},
        vel \in IF redshift THEN {<<v>> : v \in VelocityValues} ELSE {<<>>},
        ker \in IF lsf THEN {<<w>> : w \in KernelValues} ELSE {<<>>}}

CurveFit(p0, n_used, lsf, redshift) ==
    IF Len(p0) > n_used
    THEN {[exc |-> "TypeError", popt |-> <<>>]}
    ELSE {[exc |-> "RuntimeError", popt |-> <<>>]}
         \cup {[exc |-> "none", popt |-> q] : q \in CurveFitReturns(p0, lsf, redshift)}

\* the except clause of line 873
Caught(exc) == exc = "RuntimeError"

(***************************************************************************)
(* Selection and reporting, lines 886-924.                                 *)
(***************************************************************************)
\* np.nanargmin: the first index (from 0) of the least value that is not NaN;
\* defined only when some value is not NaN
NanArgMin(chis) ==
    CHOOSE i \in 0..(Len(chis) - 1) :
        /\ chis[i + 1].k = "frac"
        /\ \A j \in 0..(Len(chis) - 1) :
              chis[j + 1].k = "frac" =>
                  /\ ~FracLess(chis[j + 1], chis[i + 1])
                  /\ (j < i => FracLess(chis[i + 1], chis[j + 1]))

AllNaN(chis) == \A i \in 1..Len(chis) : chis[i].k = "nan"

\* 1/rtol of np.allclose (rtol = 1e-05; atol = 1e-08 is below one unit)
RtolInverse == 100000

\* a comparison for exact equality
AllCloseExact(a, b) == a = b

\* np.allclose(a, b): |a - b| <= atol + rtol * |b| in every entry
AllClose(a, b) == \A i \in 1..Len(a) : Abs(a[i] - b[i]) * RtolInverse <= Abs(b[i])

\* chi_sq / dof as numpy divides: x/0 is inf, 0/0 and nan/x are nan
RChiSq(chi, dof) ==
    IF chi.k = "nan" THEN FracNaN
    ELSE IF dof = 0 THEN (IF chi.num = 0 THEN FracNaN ELSE [k |-> "inf", num |-> 0, den |-> 1])
    ELSE IF dof < 0 THEN Frac(-chi.num, chi.den * (-dof))
    ELSE Frac(chi.num, chi.den * dof)

\* lines 893-898: the chosen parameters, or NaN in every entry
Discard(op_labels, p0) ==
    IF AllClose(op_labels, p0)
    THEN [i \in 1..Len(op_labels) |-> TimesNaN(Num(op_labels[i]))]
    ELSE [i \in 1..Len(op_labels) |-> Num(op_labels[i])]

\* best_result_index = np.nanargmin([m["chi_sq"] for (o, c, m) in results])
BestResultIndex(res) == NanArgMin([i \in 1..Len(res) |-> res[i].meta.chi_sq])

Front(s) == SubSeq(s, 1, Len(s) - 1)

\* a loop that takes the redshift off the end before the kernel
NuisanceRedshiftFirst(l0, lsf, redshift) ==
    LET red == IF redshift THEN l0[Len(l0)] ELSE Num(0)
        l1 == IF redshift THEN Front(l0) ELSE l0
        kernel == IF lsf THEN l1[Len(l1)] ELSE Num(0)
        l2 == IF lsf THEN Front(l1) ELSE l1
    IN  [kernel |-> kernel, redshift |-> red, labels |-> l2]

\* lines 904-908: meta.update(kernel=0, redshift=0), then
\* for key, effect in zip(("kernel", "redshift"), (model_lsf, model_redshift)):
\* an effect that is on takes the last entry off op_labels
Nuisance(l0, lsf, redshift) ==
    LET kernel == IF lsf THEN l0[Len(l0)] ELSE Num(0)
        l1 == IF lsf THEN Front(l0) ELSE l0
        red == IF redshift THEN l1[Len(l1)] ELSE Num(0)
        l2 == IF redshift THEN Front(l1) ELSE l1
    IN  [kernel |-> kernel, redshift |-> red, labels |-> l2]

\* lines 891-924 for a non-empty results list with a chi-square that is not NaN
Report(res, lsf, redshift, n_used) ==
    LET best == BestResultIndex(res)
        r == res[best + 1]
        l0 == Discard(r.op_labels, r.meta.p0)
        nu == Nuisance(l0, lsf, redshift)
        l2 == nu.labels
    IN  [labels |-> l2, cov |-> r.cov,
         meta |-> [p0 |-> r.meta.p0, fvec |-> r.meta.fvec, chi_sq |-> r.meta.chi_sq,
                   kernel |-> FAbs(nu.kernel), redshift |-> nu.redshift,
                   best_result_index |-> best, method |-> "curve_fit",
                   derivatives_used |-> (fs_Dfun # None),
                   r_chi_sq |-> RChiSq(r.meta.chi_sq, n_used - NLabels - 1),
                   model_flux |-> [j \in 1..NPixels |->
                       IF \E i \in 1..Len(l2) : ~IsFinite(l2[i]) THEN NaN
                       ELSE Num(Dot(theta_arg[j],
                                    Vectorizer([i \in 1..Len(l2) |-> l2[i].v])))]]]


(***************************************************************************)
(* _fit_spectrum as a process: entry (lines 760-808), one pass of the      *)
(* multi-start loop per step (lines 861-884), selection and report         *)
(* (lines 886-924).                                                        *)
(***************************************************************************)
\* abs(kwargs.get("max_abs_velocity", 10))
MaxAbsVelocity == Abs(kw_max_abs_velocity)

UsedPixels == UseIndex(normalized_flux, normalized_ivar, s2_arg)

\* the exceptions get_label_vector_derivative can raise, and "supplied" for a
\* vectorizer that returns the derivative
DerivativeOutcomes == {"supplied", "NotImplementedError", "ValueError"}

\* lines 778-806: the outcome of the derivative probe, as the exception that
\* leaves _fit_spectrum ("none" when the fit goes on with Dfun = None)
DfunProbe(requested, outcome) ==
    IF ~requested THEN "none"
    ELSE IF outcome = "NotImplementedError" THEN "none"
    ELSE IF outcome # "supplied" THEN outcome
    ELSE \* raise NotImplementedError("requires a thinko")
         "NotImplementedError"

FitSpectrumEntry ==
    /\ fs_pc = "entry"
    /\ IF UsedPixels = <<>>
       THEN /\ fs_ret' = NoInformationReturn
            /\ fs_pc' = "done"
            /\ UNCHANGED fs_exc
       ELSE IF DfunProbe(kw_Dfun, derivative) # "none"
       THEN /\ fs_pc' = "raised"
            /\ fs_exc' = DfunProbe(kw_Dfun, derivative)
            /\ UNCHANGED fs_ret
       ELSE /\ fs_pc' = "loop"
            /\ UNCHANGED <<fs_ret, fs_exc>>
    /\ fs_Dfun' = None
    /\ UNCHANGED <<normalized_flux, normalized_ivar, s2_arg, initial_labels,
                   model_lsf, model_redshift, kw_max_abs_velocity, kw_Dfun,
                   derivative, fs_k, results, n_curve_fit>>
    /\ UNCHANGED <<pxVars, trVars, ftVars>>

\* one pass of `for p0 in np.atleast_2d(initial_labels)`
FitSpectrumStart ==
    /\ fs_pc = "loop"
    /\ fs_k < Len(initial_labels)
    /\ LET p0 == P0(initial_labels[fs_k + 1], model_lsf, model_redshift)
       IN  \E o \in CurveFit(p0, Len(UsedPixels), model_lsf, model_redshift) :
             /\ n_curve_fit' = n_curve_fit + 1
             /\ IF o.exc = "none"
                THEN LET fvec == ForwardModel(o.popt, model_lsf, model_redshift,
                                              MaxAbsVelocity, UsedPixels)
                     IN  /\ results' = Append(results,
                                [op_labels |-> o.popt, cov |-> [k |-> "pcov", v |-> 0],
                                 meta |-> [p0 |-> p0, fvec |-> fvec,
                                           chi_sq |-> ChiSq(fvec, normalized_flux,
                                                normalized_ivar, s2_arg, UsedPixels)]])
                         /\ fs_k' = fs_k + 1
                         /\ UNCHANGED <<fs_pc, fs_exc>>
                ELSE IF Caught(o.exc)
                THEN /\ fs_k' = fs_k + 1
                     /\ UNCHANGED <<results, fs_pc, fs_exc>>
                ELSE /\ fs_pc' = "raised"
                     /\ fs_exc' = o.exc
                     /\ UNCHANGED <<results, fs_k>>
    /\ UNCHANGED <<normalized_flux, normalized_ivar, s2_arg, initial_labels,
                   model_lsf, model_redshift, kw_max_abs_velocity, kw_Dfun,
                   derivative, fs_Dfun, fs_ret>>
    /\ UNCHANGED <<pxVars, trVars, ftVars>>

FitSpectrumReport ==
    /\ fs_pc = "loop"
    /\ fs_k = Len(initial_labels)
    /\ IF Len(results) = 0
       THEN /\ fs_ret' = NoResultsReturn
            /\ fs_pc' = "done"
            /\ UNCHANGED fs_exc
       ELSE IF AllNaN([i \in 1..Len(results) |-> results[i].meta.chi_sq])
       THEN \* np.nanargmin raises ValueError("All-NaN slice encountered")
            /\ fs_pc' = "raised"
            /\ fs_exc' = "ValueError"
            /\ UNCHANGED fs_ret
       ELSE /\ fs_ret' = Report(results, model_lsf, model_redshift, Len(UsedPixels))
            /\ fs_pc' = "done"
            /\ UNCHANGED fs_exc
    /\ UNCHANGED <<normalized_flux, normalized_ivar, s2_arg, initial_labels,
                   model_lsf, model_redshift, kw_max_abs_velocity, kw_Dfun,
                   derivative, fs_Dfun, fs_k, results, n_curve_fit>>
    /\ UNCHANGED <<pxVars, trVars, ftVars>>

(***************************************************************************)
(* The arguments a fit is called with.                                     *)
(***************************************************************************)
\* spectra: every flux finite, the first pixel NaN, every pixel NaN, every
\* pixel infinite
SpectrumFluxes ==
    {[j \in 1..NPixels |-> IF j \in bad THEN NaN ELSE Num(1 + j)] :
        bad \in {{}, {1}, 1..NPixels}}
    \cup {[j \in 1..NPixels |-> Inf]}

IvarValues == {0, 1}

S2Values == {0, 1}

\* the i-th initial label vector; the first is vectorizer.fiducials
InitialGuess(i) == [l \in 1..NLabels |-> Fiducials[l] + (i - 1) * 20]

InitialLabelSets == {[i \in 1..n |-> InitialGuess(i)] : n \in 1..MaxStarts}

FSParked ==
    /\ normalized_flux = <<>>
    /\ normalized_ivar = <<>>
    /\ s2_arg = <<>>
    /\ initial_labels = <<>>
    /\ model_lsf = FALSE
    /\ model_redshift = FALSE
    /\ kw_max_abs_velocity = DefaultMaxAbsVelocity
    /\ kw_Dfun = FALSE
    /\ derivative = "NotImplementedError"
    /\ fs_pc = "parked"
    /\ fs_k = 0
    /\ results = <<>>
    /\ fs_ret = None
    /\ fs_exc = "none"
    /\ fs_Dfun = None
    /\ n_curve_fit = 0

PXParked ==
    /\ px_flux = <<>>
    /\ px_ivar = <<>>
    /\ px_scatter = 0
    /\ px_design = <<>>
    /\ px_fixed_scatter = TRUE
    /\ px_pc = "parked"
    /\ px_call = "none"
    /\ px_out = None
    /\ n_fmin_powell = 0

TRParked ==
    /\ theta = None
    /\ s2 = None
    /\ pool = None
    /\ tr_pc = "parked"
    /\ tr_fixed_scatter = TRUE
    /\ tr_function = "none"
    /\ tr_use_neighbouring = FALSE
    /\ tr_initial_theta = <<>>
    /\ tr_initial_s2 = <<>>
    /\ tr_output = <<>>
    /\ tr_last_theta = <<>>
    /\ tr_exc = "none"
    /\ tr_calls = 0

FTParked ==
    /\ fit_args = <<>>
    /\ fit_pc = "parked"
    /\ fit_cur = 0
    /\ fit_out = <<>>
    /\ fit_ret = None
    /\ fit_exc = "none"

FSInit ==
    /\ normalized_flux \in SpectrumFluxes
    /\ normalized_ivar \in [1..NPixels -> IvarValues]
    /\ s2_arg \in {[j \in 1..NPixels |-> v] : v \in S2Values}
    /\ initial_labels \in InitialLabelSets
    /\ model_lsf \in BOOLEAN
    /\ model_redshift \in BOOLEAN
    /\ kw_max_abs_velocity \in
          IF model_redshift THEN {DefaultMaxAbsVelocity, -7} ELSE {DefaultMaxAbsVelocity}
    \* derivatives are requested of fits without nuisance parameters
    /\ kw_Dfun \in IF model_lsf \/ model_redshift THEN {FALSE} ELSE BOOLEAN
    /\ derivative \in IF kw_Dfun THEN DerivativeOutcomes ELSE {"NotImplementedError"}
    /\ fs_Dfun = None
    /\ fs_pc = "entry"
    /\ fs_k = 0
    /\ results = <<>>
    /\ fs_ret = None
    /\ fs_exc = "none"
    /\ n_curve_fit = 0

InitFit == FSInit /\ PXParked /\ TRParked /\ FTParked

NextFit == FitSpectrumEntry \/ FitSpectrumStart \/ FitSpectrumReport

SpecFit == InitFit /\ [][NextFit]_vars


(***************************************************************************)
(* Properties of _fit_spectrum.                                            *)
(***************************************************************************)
AllMasked ==
    \/ \A j \in 1..NPixels : normalized_ivar[j] = 0
    \/ \A j \in 1..NPixels : normalized_flux[j].k # "num"

FitLeftEntry == fs_pc \in {"loop", "done", "raised"}

FitReturned == fs_pc = "done"

ReportedFailure == FitReturned /\ "fail_message" \in DOMAIN fs_ret.meta

ReportedResult == FitReturned /\ "best_result_index" \in DOMAIN fs_ret.meta

AllLabelsNaN == \A i \in 1..Len(fs_ret.labels) : fs_ret.labels[i].k = "nan"

\* C2: a spectrum whose pixels are all masked out (every inverse variance zero,
\* or every flux non-finite) returns N_labels NaN labels and a fail_message,
\* and op.curve_fit is never called for it.
C2_MaskedSpectrumReturnsNaN ==
    (AllMasked /\ FitLeftEntry) =>
        /\ ReportedFailure
        /\ Len(fs_ret.labels) = NLabels
        /\ AllLabelsNaN
        /\ n_curve_fit = 0

C2_Witness ==
    /\ FitReturned
    /\ \A j \in 1..NPixels : normalized_ivar[j] = 0
    /\ \A j \in 1..NPixels : normalized_flux[j].k = "num"
    /\ AllLabelsNaN

\* the run that best_result_index names
ChosenRun == results[fs_ret.meta.best_result_index + 1]

\* C4 (as claimed): the returned result is the successful run of least
\* chi-square, and best_result_index names the supplied initial label vector
\* that produced it.
C4_BestIndexNamesInitialGuess ==
    ReportedResult =>
        /\ \A i \in 1..Len(results) :
              results[i].meta.chi_sq.k = "frac" =>
                  ~FracLess(results[i].meta.chi_sq, fs_ret.meta.chi_sq)
        /\ fs_ret.meta.best_result_index + 1 \in 1..Len(initial_labels)
        /\ fs_ret.meta.p0 =
              P0(initial_labels[fs_ret.meta.best_result_index + 1],
                 model_lsf, model_redshift)

\* the first N_labels entries of the chosen run, as floats
ChosenLabels == [i \in 1..NLabels |-> Num(ChosenRun.op_labels[i])]

\* C5 (as claimed): a chosen result equal to its initial guess is reported as
\* NaN in every entry, and one that differs from it is reported unchanged.
C5_EqualGuessNaNElseUnchanged ==
    ReportedResult =>
        /\ ChosenRun.op_labels = ChosenRun.meta.p0 => AllLabelsNaN
        /\ ChosenRun.op_labels # ChosenRun.meta.p0 => fs_ret.labels = ChosenLabels

\* every entry within 1e-8 + 1e-5 * |initial entry| of the initial guess
WithinTolerance(a, b) ==
    \A i \in 1..Len(a) :
        IF a[i] >= b[i] THEN (a[i] - b[i]) * 100000 <= Abs(b[i])
        ELSE (b[i] - a[i]) * 100000 <= Abs(b[i])

\* C5 (amended): a chosen result within np.allclose's tolerance of its initial
\* guess (so also one equal to it) is reported as NaN in every entry, and one
\* outside that tolerance is reported unchanged.
C5_CloseGuessNaNElseUnchanged ==
    ReportedResult =>
        /\ WithinTolerance(ChosenRun.op_labels, ChosenRun.meta.p0) =>
              (Len(fs_ret.labels) = NLabels /\ AllLabelsNaN)
        /\ ~WithinTolerance(ChosenRun.op_labels, ChosenRun.meta.p0) =>
              fs_ret.labels = ChosenLabels

C5_Witness ==
    /\ ReportedResult
    /\ ChosenRun.op_labels # ChosenRun.meta.p0
    /\ WithinTolerance(ChosenRun.op_labels, ChosenRun.meta.p0)
    /\ AllLabelsNaN

\* every start was attempted and none gave a usable chi-square
TotalFitFailure ==
    /\ fs_pc \in {"done", "raised"}
    /\ UsedPixels # <<>>
    /\ fs_k = Len(initial_labels)
    /\ \A i \in 1..Len(results) : results[i].meta.chi_sq.k = "nan"

\* C6 (as claimed): when every start failed, or every successful start has a
\* NaN chi-square, _fit_spectrum returns NaN labels with a fail_message and
\* raises nothing.
C6_TotalFailureIsReturned ==
    TotalFitFailure => (ReportedFailure /\ AllLabelsNaN)

\* C7 (as claimed): an exception of the optimizer in one start is caught and
\* the start skipped, so every initial guess is attempted, and failure is
\* reported only if every start failed.
C7_OptimizerFailureSkipsStart ==
    (fs_pc \in {"done", "raised"} /\ UsedPixels # <<>>) =>
        /\ fs_k = Len(initial_labels)
        /\ n_curve_fit = Len(initial_labels)
        /\ ReportedFailure => Len(results) = 0

\* C8: with redshift modelling on, a forward-model evaluation whose velocity
\* (the parameter after the labels) is beyond the maximum absolute velocity
\* is NaN at every used pixel.
C8_VelocityBeyondLimitIsNaN ==
    model_redshift =>
        \A i \in 1..Len(results) :
            Abs(results[i].op_labels[NLabels + 1]) > Abs(kw_max_abs_velocity) =>
                /\ Len(results[i].meta.fvec) = Len(UsedPixels)
                /\ \A j \in 1..Len(results[i].meta.fvec) :
                      results[i].meta.fvec[j].k = "nan"

C8_Witness ==
    /\ model_redshift
    /\ model_lsf
    /\ Len(UsedPixels) > 1
    /\ \E i \in 1..Len(results) :
          /\ Abs(results[i].op_labels[NLabels + 1]) > Abs(kw_max_abs_velocity)
          /\ \A j \in 1..Len(results[i].meta.fvec) : results[i].meta.fvec[j].k = "nan"


\* the divisor of r_chi_sq (line 918)
DegreesOfFreedom == Len(UsedPixels) - Len(Fiducials) - 1

\* C14 (as claimed): a fit that reports a reduced chi-square used more pixels
\* than it fitted labels, and the divisor of r_chi_sq is positive.
C14_ReducedChiSqDivisorPositive ==
    ReportedResult =>
        /\ Len(UsedPixels) > NLabels
        /\ DegreesOfFreedom > 0
        /\ fs_ret.meta.r_chi_sq.k # "inf"

\* the parameter of the chosen run that f used as the kernel width
\* (parameters[-1], line 817) and the one it used as the velocity (line 822)
ChosenKernel == ChosenRun.op_labels[Len(ChosenRun.op_labels)]

ChosenVelocity ==
    ChosenRun.op_labels[VelocityIndex(ChosenRun.op_labels, model_lsf)]

\* the chosen run was discarded (lines 893-898)
ChosenDiscarded == WithinTolerance(ChosenRun.op_labels, ChosenRun.meta.p0)

\* C15 (as claimed): the returned label vector has N_labels entries; 'kernel'
\* is the absolute value of the parameter f used as the kernel width and
\* 'redshift' is the parameter f used as the velocity; an effect that is off
\* is reported as 0.
C15_NuisanceReportedAsUsed ==
    ReportedResult =>
        /\ Len(fs_ret.labels) = NLabels
        /\ fs_ret.meta.kernel =
              (IF model_lsf THEN Num(Abs(ChosenKernel)) ELSE Num(0))
        /\ fs_ret.meta.redshift =
              (IF model_redshift THEN Num(ChosenVelocity) ELSE Num(0))

\* C15 (amended): as claimed for a chosen run that is not discarded; for a
\* discarded one (within np.allclose's tolerance of its initial guess) the
\* nuisance parameters of the effects that are on are NaN like the labels.
\* The label vector has N_labels entries and an effect that is off is
\* reported as 0 in both cases.
C15_NuisanceReportedAsUsedUnlessDiscarded ==
    ReportedResult =>
        /\ Len(fs_ret.labels) = NLabels
        /\ fs_ret.meta.kernel =
              (IF ~model_lsf THEN Num(0)
               ELSE IF ChosenDiscarded THEN NaN ELSE Num(Abs(ChosenKernel)))
        /\ fs_ret.meta.redshift =
              (IF ~model_redshift THEN Num(0)
               ELSE IF ChosenDiscarded THEN NaN ELSE Num(ChosenVelocity))

\* both effects on and a negative kernel width reported as its absolute value
C15_Witness ==
    /\ ReportedResult
    /\ model_lsf /\ model_redshift
    /\ ChosenKernel < 0
    /\ ChosenKernel # ChosenVelocity
    /\ fs_ret.meta.kernel = Num(-ChosenKernel)
    /\ fs_ret.meta.redshift = Num(ChosenVelocity)

\* _fit_spectrum raised before the first optimizer call
RaisedAtEntry == fs_pc = "raised" /\ n_curve_fit = 0

\* C19 (as claimed): when derivatives are requested and the spectrum has
\* usable pixels, a vectorizer that supplies the derivative lets the fit run
\* and report derivatives_used = true; one that raises NotImplementedError
\* lets it run and report derivatives_used = false; any other exception of
\* the probe leaves _fit_spectrum.
C19_DerivativeProbe ==
    (kw_Dfun /\ FitLeftEntry /\ UsedPixels # <<>>) =>
        /\ derivative = "supplied" =>
              (~RaisedAtEntry /\ (ReportedResult => fs_ret.meta.derivatives_used))
        /\ derivative = "NotImplementedError" =>
              (~RaisedAtEntry /\ (ReportedResult => ~fs_ret.meta.derivatives_used))
        /\ derivative \notin {"supplied", "NotImplementedError"} =>
              (RaisedAtEntry /\ fs_exc = derivative)

(***************************************************************************)
(* CannonModel.fit (lines 558-610): _fit_spectrum mapped over the spectra  *)
(* of a batch.  The model arguments (initial_labels, s2, model_lsf,        *)
(* model_redshift) are the same for every spectrum; map takes the spectra  *)
(* in input order, pool.map in any order, and both return the records in   *)
(* input order.  An exception of _fit_spectrum leaves the mapper and fit.  *)
(***************************************************************************)
MaxSpectra == 2   \* spectra of one batch

\* the spectra not yet handed to _fit_spectrum
FitPending == {i \in 1..Len(fit_args) : fit_out[i] = None}

\* the spectrum the mapper takes next
FitNext ==
    IF pool = None
    THEN {i \in FitPending : \A h \in FitPending : i <= h}
    ELSE FitPending

\* f(row) is called for a spectrum of the batch
FitDispatch ==
    /\ fit_pc = "map"
    /\ fit_cur = 0
    /\ \E i \in FitNext :
         /\ fit_cur' = i
         /\ normalized_flux' = fit_args[i].flux
         /\ normalized_ivar' = fit_args[i].ivar
    /\ fs_pc' = "entry"
    /\ fs_k' = 0
    /\ results' = <<>>
    /\ fs_ret' = None
    /\ fs_exc' = "none"
    /\ UNCHANGED <<s2_arg, initial_labels, model_lsf, model_redshift,
                   kw_max_abs_velocity, kw_Dfun, derivative, fs_Dfun, n_curve_fit>>
    /\ UNCHANGED <<fit_args, fit_pc, fit_out, fit_ret, fit_exc>>
    /\ UNCHANGED <<pxVars, trVars>>

\* _fit_spectrum returned: the mapper keeps the record at the spectrum's place
FitCollect ==
    /\ fit_pc = "map"
    /\ fit_cur # 0
    /\ fs_pc = "done"
    /\ fit_out' = [fit_out EXCEPT ![fit_cur] = Some(fs_ret)]
    /\ fit_cur' = 0
    /\ UNCHANGED <<fit_args, fit_pc, fit_ret, fit_exc>>
    /\ UNCHANGED <<fsVars, pxVars, trVars>>

\* _fit_spectrum raised: nothing catches it in the mapper or in fit
FitRaise ==
    /\ fit_pc = "map"
    /\ fit_cur # 0
    /\ fs_pc = "raised"
    /\ fit_pc' = "raised"
    /\ fit_exc' = fs_exc
    /\ UNCHANGED <<fit_args, fit_cur, fit_out, fit_ret>>
    /\ UNCHANGED <<fsVars, pxVars, trVars>>

\* labels, cov, metadata = zip(*mapper(...)), lines 607-610 with full_output
FitReturn ==
    /\ fit_pc = "map"
    /\ fit_cur = 0
    /\ FitPending = {}
    /\ fit_ret' = Some([labels |-> [i \in 1..Len(fit_out) |-> fit_out[i].v.labels],
                        cov |-> [i \in 1..Len(fit_out) |-> fit_out[i].v.cov],
                        metadata |-> [i \in 1..Len(fit_out) |-> fit_out[i].v.meta]])
    /\ fit_pc' = "done"
    /\ UNCHANGED <<fit_args, fit_cur, fit_out, fit_exc>>
    /\ UNCHANGED <<fsVars, pxVars, trVars>>

\* the spectra of a batch: every pixel usable, no pixel usable (NaN flux),
\* only the last pixel usable (zero inverse variance elsewhere)
BatchSpectra ==
    {[flux |-> [j \in 1..NPixels |-> Num(1 + j)], ivar |-> [j \in 1..NPixels |-> 1]],
     [flux |-> [j \in 1..NPixels |-> NaN], ivar |-> [j \in 1..NPixels |-> 1]],
     [flux |-> [j \in 1..NPixels |-> Num(1 + j)],
      ivar |-> [j \in 1..NPixels |-> IF j = NPixels THEN 1 ELSE 0]]}

\* fit(normalized_flux, normalized_ivar, model_redshift=..., full_output=True)
\* with initial_labels left at None (lines 591-593) on a model with s2 = 0
FTInit ==
    /\ fit_args \in UNION {[1..n -> BatchSpectra] : n \in 1..MaxSpectra}
    /\ fit_pc = "map"
    /\ fit_cur = 0
    /\ fit_out = [i \in 1..Len(fit_args) |-> None]
    /\ fit_ret = None
    /\ fit_exc = "none"
    /\ normalized_flux = <<>>
    /\ normalized_ivar = <<>>
    /\ s2_arg = [j \in 1..NPixels |-> 0]
    /\ initial_labels = <<Fiducials>>
    /\ model_lsf = FALSE
    /\ model_redshift \in BOOLEAN
    /\ kw_max_abs_velocity = DefaultMaxAbsVelocity
    /\ kw_Dfun = FALSE
    /\ derivative = "NotImplementedError"
    /\ fs_pc = "parked"
    /\ fs_k = 0
    /\ results = <<>>
    /\ fs_ret = None
    /\ fs_exc = "none"
    /\ fs_Dfun = None
    /\ n_curve_fit = 0

\* Model State during a fit: train is not running; a pool may be configured
FTModelState ==
    /\ theta = None
    /\ s2 = None
    /\ pool \in {None, Some("pool")}
    /\ tr_pc = "parked"
    /\ tr_fixed_scatter = TRUE
    /\ tr_function = "none"
    /\ tr_use_neighbouring = FALSE
    /\ tr_initial_theta = <<>>
    /\ tr_initial_s2 = <<>>
    /\ tr_output = <<>>
    /\ tr_last_theta = <<>>
    /\ tr_exc = "none"
    /\ tr_calls = 0

InitFitBatch == FTInit /\ PXParked /\ FTModelState

NextFitBatch == NextFit \/ FitDispatch \/ FitCollect \/ FitRaise \/ FitReturn

SpecFitBatch == InitFitBatch /\ [][NextFitBatch]_vars

(***************************************************************************)
(* Properties of fit.                                                      *)
(***************************************************************************)
\* the record of spectrum i has a finite value for every label
RecordValid(i) ==
    \A l \in 1..Len(fit_ret.v.labels[i]) : IsFinite(fit_ret.v.labels[i][l])

\* the record of spectrum i carries a failure reason
RecordFailure(i) == "fail_message" \in DOMAIN fit_ret.v.metadata[i]

\* C11 (as claimed): a batch fit returns one record per input spectrum, in
\* input order (the record of a spectrum without usable pixels says so), and
\* every record has finite labels or a failure reason.
C11_BatchFitValidOrFailureRecord ==
    fit_pc = "done" =>
        /\ Len(fit_ret.v.labels) = Len(fit_args)
        /\ Len(fit_ret.v.metadata) = Len(fit_args)
        /\ \A i \in 1..Len(fit_args) :
              /\ RecordValid(i) \/ RecordFailure(i)
              /\ UseIndex(fit_args[i].flux, fit_args[i].ivar, s2_arg) = <<>>
                    => RecordFailure(i)


(***************************************************************************)
(* The per-pixel functions.  The design matrix has NTerms = 2 columns (the *)
(* linear vectorizer of one label), so the normal-equations matrix is 2x2. *)
(***************************************************************************)
RECURSIVE Gcd(_, _)
Gcd(a, b) == IF b = 0 THEN a ELSE Gcd(b, a % b)

Lcm(a, b) == (a * b) \div Gcd(a, b)

RECURSIVE LcmSeq(_)
LcmSeq(s) == IF s = <<>> THEN 1 ELSE Lcm(Head(s), LcmSeq(Tail(s)))

\* np.hstack([1, np.zeros(N_terms - 1)]): the canonical default coefficients
DefaultTheta == [t \in 1..NTerms |-> IF t = 1 THEN Frac(1, 1) ELSE Frac(0, 1)]

\* model._chi_sq(theta, design_matrix, normalized_flux, inv_var):
\* sum of inv_var * (flux - design_matrix . theta)^2; the entries of theta
\* share one denominator
ModelChiSq(th, design, flux, inv_var) ==
    LET n == Len(flux)
        d == th[1].den
        L == LcmSeq([i \in 1..n |-> inv_var[i].den])
        r(i) == flux[i] * d - SumSeq([t \in 1..Len(th) |-> design[i][t] * th[t].num])
    IN  Frac(SumSeq([i \in 1..n |-> inv_var[i].num * (L \div inv_var[i].den) * r(i) * r(i)]),
             L * d * d)

\* an except branch that returns zeros for every coefficient
SingularReturnZeros(adj) ==
    [theta |-> [t \in 1..NTerms |-> Frac(0, 1)], ATCiAinv |-> None, ivar |-> adj]

\* the return of the except branch of _fit_theta (line 1077)
SingularReturn(adj) == [theta |-> DefaultTheta, ATCiAinv |-> None, ivar |-> adj]

\* _fit_theta (lines 1049-1082).  np.linalg.inv raises LinAlgError for a
\* singular matrix, that is when the determinant is zero.
FitTheta(flux, ivar, s2v, design) ==
    LET n == Len(flux)
        adj == [i \in 1..n |-> AdjustedIvar(ivar[i], s2v)]
        L == LcmSeq([i \in 1..n |-> adj[i].den])
        \* L times the adjusted inverse variance, an integer
        w == [i \in 1..n |-> adj[i].num * (L \div adj[i].den)]
        \* L times design_matrix.T . CiA
        m(a, b) == SumSeq([i \in 1..n |-> w[i] * design[i][a] * design[i][b]])
        det == m(1, 1) * m(2, 2) - m(1, 2) * m(2, 1)
        \* L times design_matrix.T . (normalized_flux * ivar)
        aty(a) == SumSeq([i \in 1..n |-> w[i] * design[i][a] * flux[i]])
    IN  IF det = 0
        THEN SingularReturn(adj)
        ELSE [theta |-> << Frac(m(2, 2) * aty(1) - m(1, 2) * aty(2), det),
                           Frac(m(1, 1) * aty(2) - m(2, 1) * aty(1), det) >>,
              ATCiAinv |-> [k |-> "matrix", den |-> det,
                            num |-> << <<L * m(2, 2), -L * m(1, 2)>>,
                                       <<-L * m(2, 1), L * m(1, 1)>> >>],
              ivar |-> adj]

\* _fit_pixel_with_fixed_scatter (lines 1016-1046), __return_theta unset
FitPixelWithFixedScatter(scatter, flux, ivar, design) ==
    LET r == FitTheta(flux, ivar, scatter * scatter, design)
    IN  IF r.ATCiAinv = None THEN Frac(0, 1)
        ELSE ModelChiSq(r.theta, design, flux, r.ivar)

\* _model_pixel (lines 1001-1005); theta is a vector of integers
ModelPixel(th, scatter, flux, ivar, design) ==
    ModelChiSq([t \in 1..Len(th) |-> Frac(th[t], 1)], design, flux,
               [i \in 1..Len(flux) |-> AdjustedIvar(ivar[i], scatter * scatter)])

\* _model_pixel_fixed_scatter (lines 1008-1013)
ModelPixelFixedScatter(parameters, flux, ivar, design) ==
    ModelPixel(Front(parameters), parameters[Len(parameters)], flux, ivar, design)

Raised(name) == [exc |-> name, value |-> None]

Returned(x) == [exc |-> "none", value |-> x]

\* lines 962-996 of _fit_pixel, which follow its `raise a`.  The names
\* scatter and p0_scatter are bound nowhere, so evaluating them raises
\* NameError; the only path that evaluates neither is the all-zero-ivar
\* return of joint mode.
FitPixelAfterRaise(initial_theta, initial_s2, flux, ivar, design, fixed_scatter) ==
    IF \A i \in 1..Len(ivar) : ivar[i] = 0
    THEN IF fixed_scatter THEN Raised("NameError")
         ELSE Returned(DefaultTheta \o <<Frac(0, 1)>>)
    ELSE Raised("NameError")

\* the vector the optimizer of _fit_pixel is started from: line 962 replaces
\* the initial_theta argument by the canonical default before p0 is built
\* from it (lines 979 and 984)
FitPixelStart(initial_theta) == DefaultTheta

\* _fit_pixel (lines 927-996): after unpacking the design matrix it executes
\* `raise a` (line 960); a is bound nowhere, so the statement raises NameError
FitPixel(initial_theta, initial_s2, flux, ivar, design, fixed_scatter) ==
    Raised("NameError")

(***************************************************************************)
(* The per-pixel functions applied to the arguments of one pixel.          *)
(***************************************************************************)
CallFitPixel ==
    /\ px_pc = "args"
    /\ px_call' = "_fit_pixel"
    /\ px_out' = FitPixel(None, px_scatter, px_flux, px_ivar, px_design,
                          px_fixed_scatter)
    /\ px_pc' = IF px_out'.exc = "none" THEN "returned" ELSE "raised"
    /\ UNCHANGED <<px_flux, px_ivar, px_scatter, px_design, px_fixed_scatter,
                   n_fmin_powell>>
    /\ UNCHANGED <<fsVars, trVars, ftVars>>

CallFitTheta ==
    /\ px_pc = "args"
    /\ px_call' = "_fit_theta"
    /\ px_out' = Returned(FitTheta(px_flux, px_ivar, px_scatter, px_design))
    /\ px_pc' = "returned"
    /\ UNCHANGED <<px_flux, px_ivar, px_scatter, px_design, px_fixed_scatter,
                   n_fmin_powell>>
    /\ UNCHANGED <<fsVars, trVars, ftVars>>

CallFitPixelWithFixedScatter ==
    /\ px_pc = "args"
    /\ px_call' = "_fit_pixel_with_fixed_scatter"
    /\ px_out' = Returned(FitPixelWithFixedScatter(px_scatter, px_flux, px_ivar,
                                                   px_design))
    /\ px_pc' = "returned"
    /\ UNCHANGED <<px_flux, px_ivar, px_scatter, px_design, px_fixed_scatter,
                   n_fmin_powell>>
    /\ UNCHANGED <<fsVars, trVars, ftVars>>

\* _model_pixel applied to a trial coefficient vector
ModelPixelThetas == {<<1, 0>>, <<0, 1>>}

CallModelPixel ==
    /\ px_pc = "args"
    /\ px_call' = "_model_pixel"
    /\ \E th \in ModelPixelThetas :
         px_out' = Returned([theta |-> th,
                             chi_sq |-> ModelPixel(th, px_scatter, px_flux, px_ivar,
                                                   px_design)])
    /\ px_pc' = "returned"
    /\ UNCHANGED <<px_flux, px_ivar, px_scatter, px_design, px_fixed_scatter,
                   n_fmin_powell>>
    /\ UNCHANGED <<fsVars, trVars, ftVars>>

PixelFluxValues == {0, 2}

PixelIvarValues == {0, 1, 2}

ScatterValues == {0, 1, 2}

\* the label offsets from the fiducial of the stars of the labelled set
DesignOffsets == {0, 1}

DesignMatrices ==
    {[i \in 1..NStars |-> <<1>> \o [l \in 1..NLabels |-> off[i]]] :
        off \in [1..NStars -> DesignOffsets]}

PXInit ==
    /\ px_flux \in [1..NStars -> PixelFluxValues]
    /\ px_ivar \in [1..NStars -> PixelIvarValues]
    /\ px_scatter \in ScatterValues
    /\ px_design \in DesignMatrices
    /\ px_fixed_scatter \in BOOLEAN
    /\ px_pc = "args"
    /\ px_call = "none"
    /\ px_out = None
    /\ n_fmin_powell = 0

InitPixel == PXInit /\ FSParked /\ TRParked /\ FTParked

NextPixel ==
    CallFitPixel \/ CallFitTheta \/ CallFitPixelWithFixedScatter \/ CallModelPixel

SpecPixel == InitPixel /\ [][NextPixel]_vars

(***************************************************************************)
(* Properties of the per-pixel functions.                                  *)
(***************************************************************************)
PixelIvarAllZero == \A i \in 1..NStars : px_ivar[i] = 0

\* C1 (as claimed): for a pixel whose inverse variance is zero for every star
\* _fit_pixel returns the default coefficients followed by the supplied
\* scatter (fixed-scatter mode) or 0 (joint mode), calls no optimizer and
\* raises nothing.
C1_ZeroIvarPixelReturnsDefault ==
    (px_call = "_fit_pixel" /\ PixelIvarAllZero) =>
        /\ px_pc = "returned"
        /\ px_out.value =
              DefaultTheta \o <<Frac(IF px_fixed_scatter THEN px_scatter ELSE 0, 1)>>
        /\ n_fmin_powell = 0

\* the normal-equations matrix design_matrix.T . diag(adjusted ivar) .
\* design_matrix is singular: the design rows of the stars that carry weight
\* do not span the NTerms = 2 dimensions
NormalMatrixSingular ==
    \A i, j \in 1..NStars :
        (px_ivar[i] > 0 /\ px_ivar[j] > 0) =>
            px_design[i][1] * px_design[j][2] = px_design[i][2] * px_design[j][1]

\* C3: when the normal-equations matrix is singular, as it is for all-zero
\* inverse variance whatever the flux, _fit_theta returns the default
\* coefficients (1, 0, ...), None for the inverse covariance and the adjusted
\* inverse-variance vector.
C3_SingularReturnsDefault ==
    (px_call = "_fit_theta" /\ NormalMatrixSingular) =>
        /\ px_pc = "returned"
        /\ px_out.value.theta = [t \in 1..NTerms |-> Frac(IF t = 1 THEN 1 ELSE 0, 1)]
        /\ px_out.value.ATCiAinv = None
        /\ px_out.value.ivar =
              [i \in 1..NStars |-> Frac(px_ivar[i], 1 + px_ivar[i] * px_scatter)]

C3_Witness ==
    /\ px_call = "_fit_theta"
    /\ PixelIvarAllZero
    /\ \E i \in 1..NStars : px_flux[i] # 0
    /\ px_out.value.ATCiAinv = None

\* a singular matrix that is not the all-zero one
C3_WitnessRankOne ==
    /\ px_call = "_fit_theta"
    /\ \A i \in 1..NStars : px_ivar[i] > 0
    /\ NormalMatrixSingular
    /\ px_out.value.ATCiAinv = None


\* C17 (as claimed): _fit_pixel returns a vector of N_terms + 1 entries, the
\* optimized coefficients followed by the scatter, and in fixed-scatter mode
\* the last entry is the scatter it was given.
C17_FitPixelReturnsCoefficientsAndScatter ==
    px_call = "_fit_pixel" =>
        /\ px_pc = "returned"
        /\ Len(px_out.value) = NTerms + 1
        /\ px_fixed_scatter => px_out.value[NTerms + 1] = Frac(px_scatter, 1)


\* two exact quotients are the same number
FracEq(a, b) == a.num * b.den = b.num * a.den

\* ivar / (1 + ivar * s2) for each star of the pixel, with the scatter
\* argument of the call taken as s2, the way _fit_spectrum takes self.s2
PixelAdjustedIvar ==
    [i \in 1..NStars |-> AdjustedIvar(px_ivar[i], px_scatter)]

\* C18 (as claimed): the training objective _model_pixel, the closed-form
\* solver _fit_theta and its caller _fit_pixel_with_fixed_scatter all weight
\* the stars of a pixel by ivar / (1 + ivar * s2), where s2 is the scatter
\* value they are given, as _fit_spectrum does with the s2 of the pixel.
C18_AdjustedIvarUsesSameS2 ==
    /\ px_call = "_fit_theta" => px_out.value.ivar = PixelAdjustedIvar
    /\ px_call = "_model_pixel" =>
          FracEq(px_out.value.chi_sq,
                 ModelChiSq([t \in 1..NTerms |-> Frac(px_out.value.theta[t], 1)],
                            px_design, px_flux, PixelAdjustedIvar))
    /\ px_call = "_fit_pixel_with_fixed_scatter" =>
          LET r == FitTheta(px_flux, px_ivar, px_scatter, px_design)
          IN  FracEq(px_out.value,
                     IF r.ATCiAinv = None THEN Frac(0, 1)
                     ELSE ModelChiSq(r.theta, px_design, px_flux, PixelAdjustedIvar))


(***************************************************************************)
(* CannonModel.train (lines 81-194) as a process: entry (lines 88-153),    *)
(* one pixel fit per step of the dispatch (lines 156-171), the interrupt   *)
(* handler (lines 173-181), and the unpacking of the results (lines        *)
(* 184-194).                                                               *)
(***************************************************************************)
\* the labelled set: self.normalized_flux.T and self.normalized_ivar.T, one
\* row per pixel, and self.design_matrix; the first pixel has no information
TrainFlux == [j \in 1..NPixels |-> [i \in 1..NStars |-> (i * j) % 3]]

TrainIvar == [j \in 1..NPixels |-> [i \in 1..NStars |-> IF j = 1 THEN 0 ELSE 1 + ((i + j) % 2)]]

TrainDesign == [i \in 1..NStars |-> <<1>> \o [l \in 1..NLabels |-> i - 1]]

\* the s2 setter of the base model: a scalar is broadcast to every pixel
S2Setter(value) == Some([j \in 1..NPixels |-> value])

\* a `function` keyword other than _fit_pixel: the closed-form fit of the
\* pixel at the scatter it is given; its metadata keeps the initial theta
ClosedFormFunction(initial_theta, initial_s2, flux, ivar, design, fixed_scatter) ==
    Returned([result |-> FitTheta(flux, ivar, initial_s2, design).theta \o <<initial_s2>>,
              meta |-> [initial_theta |-> initial_theta]])

\* utils.wrapper(fitting_function, None, kwds, N_items) applied to a row
Wrapper(function, row, design, fixed_scatter) ==
    IF function = "_fit_pixel"
    THEN FitPixel(row[1], row[2], row[3], row[4], design, fixed_scatter)
    ELSE ClosedFormFunction(row[1], row[2], row[3], row[4], design, fixed_scatter)

\* row j of zip(*args), lines 136-137
Row(j) == <<tr_initial_theta[j], tr_initial_s2[j], TrainFlux[j], TrainIvar[j]>>

\* lines 88-153
TrainEntry ==
    /\ tr_pc = "idle"
    /\ tr_calls < MaxCalls
    /\ tr_calls' = tr_calls + 1
    /\ \E fixed_scatter \in BOOLEAN, kw_neighbours \in {"None", "True", "False"},
          function \in {"_fit_pixel", "closed_form"} :
         /\ tr_fixed_scatter' = fixed_scatter
         /\ tr_function' = function
         /\ IF ~fixed_scatter
            THEN \* assert fixed_scatter, "Are you refactoring?"
                 /\ tr_pc' = "raised"
                 /\ tr_exc' = "AssertionError"
                 /\ UNCHANGED <<theta, s2, tr_use_neighbouring, tr_initial_theta,
                                tr_initial_s2, tr_output, tr_last_theta>>
            ELSE /\ s2' = IF s2 = None THEN S2Setter(0) ELSE s2
                 /\ IF fixed_scatter /\ s2' = None
                    THEN /\ tr_pc' = "raised"
                         /\ tr_exc' = "ValueError"
                         /\ UNCHANGED <<tr_use_neighbouring, tr_initial_theta,
                                        tr_initial_s2, tr_output, tr_last_theta>>
                    ELSE /\ IF theta = None
                            THEN /\ tr_use_neighbouring' =
                                       (kw_neighbours \in {"None", "True"})
                                 /\ tr_initial_theta' = [j \in 1..NPixels |-> None]
                            ELSE /\ tr_use_neighbouring' = FALSE
                                 /\ tr_initial_theta' =
                                       [j \in 1..NPixels |-> Some(theta.v[j])]
                         /\ tr_initial_s2' = s2'.v
                         /\ tr_output' = [j \in 1..NPixels |-> None]
                         /\ tr_last_theta' = <<>>
                         /\ tr_pc' = "dispatch"
                         /\ tr_exc' = "none"
                 /\ UNCHANGED theta
    /\ UNCHANGED pool
    /\ UNCHANGED <<fsVars, pxVars, ftVars>>

\* the neighbouring-pixel loop is taken (line 159)
NeighbourLoop == pool = None /\ tr_use_neighbouring

\* the pixel fitted next: in index order without a pool, any pending one with
PendingPixels ==
    IF pool = None
    THEN {j \in 1..NPixels : tr_output[j] = None /\ \A i \in 1..(j - 1) : tr_output[i] # None}
    ELSE {j \in 1..NPixels : tr_output[j] = None}


\* one call f(row) of the dispatch, lines 159-171
TrainFitPixel ==
    /\ tr_pc = "dispatch"
    /\ \E j \in PendingPixels :
         LET row == IF NeighbourLoop /\ j > 1
                    THEN <<Some(tr_last_theta)>> \o Tail(Row(j))
                    ELSE Row(j)
             out == Wrapper(tr_function, row, TrainDesign, tr_fixed_scatter)
         IN  IF out.exc = "none"
             THEN /\ tr_output' = [tr_output EXCEPT ![j] = Some(out.value)]
                  /\ tr_last_theta' =
                        IF NeighbourLoop THEN SubSeq(out.value.result, 1, NTerms)
                        ELSE tr_last_theta
                  /\ UNCHANGED <<tr_pc, tr_exc>>
             ELSE /\ tr_pc' = "raised"
                  /\ tr_exc' = out.exc
                  /\ UNCHANGED <<tr_output, tr_last_theta>>
    /\ UNCHANGED <<theta, s2, pool, tr_fixed_scatter, tr_function,
                   tr_use_neighbouring, tr_initial_theta, tr_initial_s2, tr_calls>>
    /\ UNCHANGED <<fsVars, pxVars, ftVars>>

\* a KeyboardInterrupt during the dispatch, lines 173-181: the temporary
\* files (there are none) are removed and the interrupt is raised again
TrainInterrupt ==
    /\ tr_pc = "dispatch"
    /\ tr_pc' = "raised"
    /\ tr_exc' = "KeyboardInterrupt"
    /\ tr_output' = [j \in 1..NPixels |-> None]
    /\ UNCHANGED <<theta, s2, pool, tr_fixed_scatter, tr_function,
                   tr_use_neighbouring, tr_initial_theta, tr_initial_s2,
                   tr_last_theta, tr_calls>>
    /\ UNCHANGED <<fsVars, pxVars, ftVars>>

\* the rows of the results taken from the last pixel to the first
UnpackThetaReversed(output) ==
    [j \in 1..Len(output) |-> Front(output[Len(output) + 1 - j].v.result)]

\* results[:, :-1] of results, metadata = zip(*output)
UnpackTheta(output) == [j \in 1..Len(output) |-> Front(output[j].v.result)]

\* results[:, -1]
UnpackS2(output) ==
    [j \in 1..Len(output) |-> output[j].v.result[Len(output[j].v.result)]]

\* lines 184-194: results, metadata = zip(*output);
\* self.theta, self.s2 = (results[:, :-1], results[:, -1])
TrainUnpack ==
    /\ tr_pc = "dispatch"
    /\ PendingPixels = {}
    /\ theta' = Some(UnpackTheta(tr_output))
    /\ s2' = Some(UnpackS2(tr_output))
    /\ tr_pc' = "idle"
    /\ UNCHANGED <<pool, tr_fixed_scatter, tr_function, tr_use_neighbouring,
                   tr_initial_theta, tr_initial_s2, tr_output, tr_last_theta,
                   tr_exc, tr_calls>>
    /\ UNCHANGED <<fsVars, pxVars, ftVars>>

\* Model State before the first train call
TRInit ==
    /\ theta \in {None, Some([j \in 1..NPixels |-> DefaultTheta])}
    /\ s2 \in {None} \cup {S2Setter(v) : v \in S2Values}
    /\ pool \in {None, Some("pool")}
    /\ tr_pc = "idle"
    /\ tr_fixed_scatter = TRUE
    /\ tr_function = "none"
    /\ tr_use_neighbouring = FALSE
    /\ tr_initial_theta = <<>>
    /\ tr_initial_s2 = <<>>
    /\ tr_output = <<>>
    /\ tr_last_theta = <<>>
    /\ tr_exc = "none"
    /\ tr_calls = 0

InitTrain == TRInit /\ FSParked /\ PXParked /\ FTParked

NextTrain == TrainEntry \/ TrainFitPixel \/ TrainInterrupt \/ TrainUnpack

SpecTrain == InitTrain /\ [][NextTrain]_vars

Init == InitFit \/ InitFitBatch \/ InitPixel \/ InitTrain

Next == NextFitBatch \/ NextPixel \/ NextTrain

Spec == Init /\ [][Next]_vars

(***************************************************************************)
(* Properties of train.                                                    *)
(***************************************************************************)
\* C9 (as claimed): a train call with fixed_scatter set while s2 is unset
\* raises at once, dispatches no pixel fit and substitutes no scatter.
C9_UnsetScatterRaises ==
    [][(tr_pc = "idle" /\ tr_calls' = tr_calls + 1 /\ tr_fixed_scatter' /\ s2.k = "none")
          => (tr_pc' = "raised" /\ s2'.k = "none")]_vars

\* C10 (as claimed): theta and s2 are written only by the step that unpacks
\* the collected results; every other step of a train call, an interrupt
\* included, leaves them as they were before the call.
C10_ThetaS2WrittenOnlyAtUnpack ==
    [][(theta' # theta \/ s2' # s2)
          => (tr_pc = "dispatch" /\ tr_pc' = "idle"
              /\ \A j \in 1..NPixels : tr_output[j].k = "some")]_vars

\* the pixels fitted so far are the first ones of the grid
FittedInIndexOrder ==
    \A j \in 1..NPixels :
        tr_output[j] # None => \A i \in 1..(j - 1) : tr_output[i] # None

\* C12 (as claimed): while a train call with neighbour warm-start enabled is
\* dispatching, the sequential neighbouring-pixel loop is the dispatch in use,
\* with or without a pool, and the pixels are fitted in increasing index order.
C12_WarmStartDispatchIsSequential ==
    (tr_pc = "dispatch" /\ tr_use_neighbouring) =>
        /\ NeighbourLoop
        /\ FittedInIndexOrder

\* the last train call ran to its end
TrainCompleted == tr_pc = "idle" /\ tr_calls > 0

\* what the fitting function of the call returns for pixel j of the grid
PixelFit(j) ==
    Wrapper(tr_function, <<tr_initial_theta[j], tr_initial_s2[j],
                           TrainFlux[j], TrainIvar[j]>>,
            TrainDesign, tr_fixed_scatter).value.result

\* C13: after a completed train call, with or without a pool, theta has one
\* row and s2 one entry per pixel of the grid, and row j of theta followed by
\* entry j of s2 is what fitting pixel j returned.
C13_ThetaS2RowPerPixel ==
    TrainCompleted =>
        /\ Len(theta.v) = Len(Dispersion)
        /\ Len(s2.v) = Len(Dispersion)
        /\ \A j \in 1..NPixels : theta.v[j] \o <<s2.v[j]>> = PixelFit(j)

\* a call completed through pool.map, with different rows for different pixels
C13_Witness ==
    /\ TrainCompleted
    /\ pool # None
    /\ \E i, j \in 1..NPixels : theta.v[i] # theta.v[j]

\* the initial_theta argument train hands to the fitting function for pixel j
HandedInitialTheta(j) ==
    IF NeighbourLoop /\ j > 1 THEN Some(tr_last_theta) ELSE tr_initial_theta[j]

\* the start the claim gives pixel j: the coefficients fitted for the pixel
\* before it when warm-start is enabled, the canonical default otherwise
ClaimedStart(j) ==
    IF tr_use_neighbouring /\ j > 1
    THEN SubSeq(tr_output[j - 1].v.result, 1, NTerms)
    ELSE DefaultTheta

\* C16 (as claimed): in a train call that fits its pixels with _fit_pixel,
\* every pixel fit reaches the optimizer, and the optimizer is started from
\* the coefficients fitted for the previous pixel (warm-start enabled, pixel
\* after the first) or from the canonical default vector (first pixel, or
\* warm-start disabled).
C16_WarmStartInitialGuess ==
    (tr_function = "_fit_pixel" /\ tr_fixed_scatter /\ tr_pc \in {"dispatch", "raised"}) =>
        /\ tr_exc \in {"none", "KeyboardInterrupt"}
        /\ tr_pc = "dispatch" =>
              \A j \in PendingPixels :
                  (j = 1 \/ tr_output[j - 1] # None) =>
                      FitPixelStart(HandedInitialTheta(j)) = ClaimedStart(j)

====
